---- MODULE Spec2Model ----
(***************************************************************************)
(* The Socket.IO relay of the chat backend (utils/socketHandler.js) with   *)
(* the Mongoose models it calls (Chat, Message, User) and the REST         *)
(* reaction route.  Every handler invocation is a task: the step that      *)
(* receives the event runs the synchronous code up to the first await, and *)
(* every later step is one storage call together with the synchronous code *)
(* that consumes its result, up to the next await.  Between two steps of a *)
(* task any step of any other task may run (one event loop, cooperative    *)
(* scheduling).  A finished task leaves the task list.                     *)
(*                                                                         *)
(* last describes the step just taken: which step, the task as it was      *)
(* before the step, and last.recv[s], the events the client of socket s    *)
(* RECEIVED from it, in order.  An emit to a socket that is no longer      *)
(* connected reaches nobody.  Payloads have the shape the handlers         *)
(* destructure; identifiers are passed in their canonical string form.     *)
(***************************************************************************)
EXTENDS Integers, Sequences, FiniteSets, TLC

\* ---------------------------------------------------------------- bounds
MaxInFlight == 2    \* handler invocations suspended at an await at one time
MaxMsgs == 2        \* Message documents created in one run
MaxTyping == 2      \* typing-start / typing-stop events in one run
MaxReacts == 2      \* reaction requests accepted for a message that was saved so often
MaxTime == 2        \* the latest reading of the wall clock (new Date()); stored stamps are 0
MaxEdits == 2       \* writes of a chat's participant list before the requests for it stop

\* ------------------------------------------------------------- universe
Sockets == {"s1", "s2"}
Users == {"u1", "u2", "u3"}
Chats == {"c1", "c2"}
Emojis == {"e1"}
None == "none"
NoChat == "cx"      \* a chat identifier that names no persisted Chat
ChatIds == Chats \cup {NoChat}
MsgIds == 1..(MaxMsgs + 1)    \* MaxMsgs + 1 never names a persisted Message

\* User.clerkId: the external identity of each persisted user; "kx" and the
\* empty identifier belong to nobody.
ClerkOf(u) == CASE u = "u1" -> "k1" [] u = "u2" -> "k2" [] u = "u3" -> "k3"
ClerkIds == {"k1", "k2", "k3", "kx", ""}

\* User.friends: u2 is everybody's friend, u1 and u3 are not friends of each
\* other.
Friends(u) == CASE u = "u1" -> {"u2"} [] u = "u2" -> {"u1", "u3"} [] u = "u3" -> {"u2"}

VARIABLES
  sockState,       \* socket -> "new" | "open" | "closed"
  sockUser,        \* socket.userId (None until an authenticate passes the lookup)
  connectedUsers,  \* the Map of socketHandler, as its set of entries
  rooms,           \* adapter rooms: socket -> set of room names it is in
  userOnline,      \* persisted User.isOnline
  chats,           \* persisted Chat documents
  msgs,            \* persisted Message documents, the index is the _id
  tasks,           \* the handler invocations suspended at an await, oldest first
  last,            \* the step just taken and what every client received from it
  typingLog,       \* the typing events every client has received so far, numbered
  typed,           \* the typing events broadcast so far, with the room at that time
  now              \* wall clock

vars == <<sockState, sockUser, connectedUsers, rooms, userOnline, chats, msgs,
          tasks, last, typingLog, typed, now>>

\* ------------------------------------------------------------- helpers
\* Map.prototype.set: the entry of the key is replaced.
MapSet(m, k, v) == {e \in m : e.userId # k} \cup {[userId |-> k, socketId |-> v]}

\* Map.prototype.delete
MapDelete(m, k) == {e \in m : e.userId # k}

\* Map.prototype.get: the socket ids stored under the key
MapGet(m, k) == {e.socketId : e \in {x \in m : x.userId = k}}

Ev(type, user, chat, msg, text) ==
  [type |-> type, user |-> user, chat |-> chat, msg |-> msg, text |-> text]

NoRecv == [s \in Sockets |-> <<>>]

\* Deliver one event to a set of sockets; only connected sockets receive it.
Deliver(box, open, targets, ev) ==
  [s \in Sockets |-> IF s \in targets /\ s \in open THEN Append(box[s], ev) ELSE box[s]]

Open == {s \in Sockets : sockState[s] = "open"}

\* io.emit(...), which reaches every connection: NOT what an error is sent with
EmitToAll(box, s, ev) == Deliver(box, Open, Sockets, ev)

\* socket.emit(...)
EmitTo(box, s, ev) == Deliver(box, Open, {s}, ev)

\* the sockets in an adapter room
InRoom(room) == {s \in Sockets : room \in rooms[s]}

\* io.emit(...), which ignores the room: NOT what the handlers call
Broadcast(box, room, ev) == Deliver(box, Open, Sockets, ev)
\* io.to(room).emit(...): every socket in the room
ToRoom(box, room, ev) == Deliver(box, Open, InRoom(room), ev)

\* socket.to(room).emit(...): every socket in the room but the emitting one
ToOthers(box, s, room, ev) == Deliver(box, Open, InRoom(room) \ {s}, ev)

\* chat.participants.some(p => p.user.toString() === userId)
IsParticipant(chat, u) == \E i \in DOMAIN chat.participants : chat.participants[i].user = u

NewTask(op, s) ==
  [op |-> op, sock |-> s, pc |-> "start", chat |-> None, msg |-> 0, emoji |-> None,
   clerk |-> None, user |-> None, delta |-> None, base |-> 0, stamp |-> 0,
   seen |-> [user |-> None, reg |-> {}],
   kind |-> None, target |-> <<>>, doc |-> <<>>]

Idle == NewTask("none", None)

CanSuspend == Len(tasks) < MaxInFlight

\* the task list without its i-th task
Remove(seq, i) == SubSeq(seq, 1, i - 1) \o SubSeq(seq, i + 1, Len(seq))

Step(act, task, recv) == [act |-> act, task |-> task, recv |-> recv]

Running(i, op, pc) == i \in DOMAIN tasks /\ tasks[i].op = op /\ tasks[i].pc = pc

\* ---------------------------------------------------------------- Init
\* The process has just started: no connection, an empty registry, and the
\* database as an earlier run left it (stored: the Message documents), with
\* every stored time stamp in the past.
Start(stored) ==
  /\ sockState = [s \in Sockets |-> "new"]
  /\ sockUser = [s \in Sockets |-> None]
  /\ connectedUsers = {}
  /\ rooms = [s \in Sockets |-> {}]
  /\ userOnline = [u \in Users |-> FALSE]
  /\ chats = [c \in Chats |->
       IF c = "c1"
       THEN [type |-> "direct",
             participants |-> <<[user |-> "u1", role |-> "admin", lastRead |-> 0],
                               [user |-> "u2", role |-> "member", lastRead |-> 0]>>,
             lastMessage |-> 0, lastActivity |-> 0, v |-> 0]
       ELSE [type |-> "group",
             participants |-> <<[user |-> "u2", role |-> "admin", lastRead |-> 0],
                               [user |-> "u3", role |-> "member", lastRead |-> 0]>>,
             lastMessage |-> 0, lastActivity |-> 0, v |-> 0]]
  /\ msgs = stored
  /\ tasks = <<>>
  /\ last = Step("Init", Idle, NoRecv)
  /\ typingLog = NoRecv
  /\ typed = <<>>
  /\ now = 1

Init == Start(<<>>)

\* one message of u1 in chat c1 is stored, nobody has reacted to it
InitStored ==
  Start(<<[chat |-> "c1", sender |-> "u1", reactions |-> <<>>, v |-> 0, createdAt |-> 0]>>)

\* process.on("uncaughtException"): process.exit(1).  The registry, the rooms,
\* the connections and the suspended handlers go with the process; the
\* database stays as it is.
Exit(task) ==
  /\ sockState' = [s \in Sockets |-> IF sockState[s] = "open" THEN "closed" ELSE sockState[s]]
  /\ sockUser' = [s \in Sockets |-> None]
  /\ connectedUsers' = {}
  /\ rooms' = [s \in Sockets |-> {}]
  /\ tasks' = <<>>
  /\ last' = Step("Exit", task, NoRecv)

\* io.on('connection')
Connect(s) ==
  /\ sockState[s] = "new"
  /\ sockState' = [sockState EXCEPT ![s] = "open"]
  /\ last' = Step("Connect", [Idle EXCEPT !.sock = s], NoRecv)
  /\ UNCHANGED <<sockUser, connectedUsers, rooms, userOnline, chats, msgs, tasks, typingLog, typed, now>>

\* the wall clock advances between steps
Tick ==
  /\ now < MaxTime
  /\ now' = now + 1
  /\ last' = Step("Tick", Idle, NoRecv)
  /\ UNCHANGED <<sockState, sockUser, connectedUsers, rooms, userOnline, chats, msgs, tasks, typingLog, typed>>

\* notifyFriendsStatusChange(userId, isOnline, socket), after its findById:
\* one friend-status-change per friend that has a registry entry, sent with
\* socket.to(entry.socketId), which never reaches `socket` itself.
\* a lookup that ignores which friend it is asked for: NOT the code's
ReachedAny(f, s) == {e.socketId : e \in connectedUsers} \ {s}
\* connectedUsers.get(friend._id.toString()) and socket.to(entry.socketId)
Reached(f, s) == MapGet(connectedUsers, f) \ {s}

RECURSIVE NotifyFriends(_, _, _, _, _)
NotifyFriends(box, todo, u, isOnline, s) ==
  IF todo = {} THEN box
  ELSE LET f == CHOOSE x \in todo : TRUE
       IN NotifyFriends(Deliver(box, Open, Reached(f, s),
                                Ev("friend-status-change", u, None, 0, isOnline)),
                        todo \ {f}, u, isOnline, s)

\* ------------------------------------------------------- authenticate
\* socket.on('authenticate'), up to `await User.findOne`
StartAuthenticate(s, k) ==
  /\ sockState[s] = "open"
  /\ LET task == [NewTask("authenticate", s) EXCEPT !.clerk = k]
     IN IF k = ""
        THEN /\ tasks' = tasks
             /\ last' = Step("StartAuthenticate", task,
                             EmitTo(NoRecv, s, Ev("error", None, None, 0, "User ID is required")))
        ELSE /\ CanSuspend
             /\ tasks' = Append(tasks, [task EXCEPT !.pc = "findOne"])
             /\ last' = Step("StartAuthenticate", task, NoRecv)
  /\ UNCHANGED <<sockState, sockUser, connectedUsers, rooms, userOnline, chats, msgs, typingLog, typed, now>>

\* a lookup that, when it finds nobody, also drops the registry entry of the
\* socket's user: NOT the code's
AuthFindOneReset(i) ==
  /\ Running(i, "authenticate", "findOne")
  /\ LET s == tasks[i].sock
         found == {u \in Users : ClerkOf(u) = tasks[i].clerk}
     IN IF found = {}
        THEN /\ last' = Step("AuthFindOne", tasks[i],
                             EmitTo(NoRecv, s, Ev("error", None, None, 0, "User not found")))
             /\ tasks' = Remove(tasks, i)
             /\ connectedUsers' = MapDelete(connectedUsers, sockUser[s])
             /\ UNCHANGED sockUser
        ELSE LET u == CHOOSE x \in found : TRUE
             IN /\ sockUser' = [sockUser EXCEPT ![s] = u]
                /\ connectedUsers' = MapSet(connectedUsers, u, s)
                /\ tasks' = [tasks EXCEPT ![i].pc = "setOnline", ![i].user = u]
                /\ last' = Step("AuthFindOne", tasks[i], NoRecv)
  /\ UNCHANGED <<sockState, rooms, userOnline, chats, msgs, typingLog, typed, now>>

\* User.findOne({clerkId}) resolves; on a hit socket.userId and the registry
\* entry are written before the next await.
AuthFindOne(i) ==
  /\ Running(i, "authenticate", "findOne")
  /\ LET s == tasks[i].sock
         found == {u \in Users : ClerkOf(u) = tasks[i].clerk}
     IN IF found = {}
        THEN /\ last' = Step("AuthFindOne", tasks[i],
                             EmitTo(NoRecv, s, Ev("error", None, None, 0, "User not found")))
             /\ tasks' = Remove(tasks, i)
             /\ UNCHANGED <<sockUser, connectedUsers>>
        ELSE LET u == CHOOSE x \in found : TRUE
             IN /\ sockUser' = [sockUser EXCEPT ![s] = u]
                /\ connectedUsers' = MapSet(connectedUsers, u, s)
                /\ tasks' = [tasks EXCEPT ![i].pc = "setOnline", ![i].user = u]
                /\ last' = Step("AuthFindOne", tasks[i], NoRecv)
  /\ UNCHANGED <<sockState, rooms, userOnline, chats, msgs, typingLog, typed, now>>

\* User.findByIdAndUpdate(user._id, {isOnline: true})
AuthSetOnline(i) ==
  /\ Running(i, "authenticate", "setOnline")
  /\ userOnline' = [userOnline EXCEPT ![tasks[i].user] = TRUE]
  /\ tasks' = [tasks EXCEPT ![i].pc = "findChats"]
  /\ last' = Step("AuthSetOnline", tasks[i], NoRecv)
  /\ UNCHANGED <<sockState, sockUser, connectedUsers, rooms, chats, msgs, typingLog, typed, now>>

\* Chat.findUserChats(user._id) resolves; the socket joins one room per chat.
AuthFindChats(i) ==
  /\ Running(i, "authenticate", "findChats")
  /\ LET s == tasks[i].sock
         mine == {c \in DOMAIN chats : IsParticipant(chats[c], tasks[i].user)}
     IN rooms' = [rooms EXCEPT ![s] = @ \cup mine]
  /\ tasks' = [tasks EXCEPT ![i].pc = "notify"]
  /\ last' = Step("AuthFindChats", tasks[i], NoRecv)
  /\ UNCHANGED <<sockState, sockUser, connectedUsers, userOnline, chats, msgs, typingLog, typed, now>>

\* notifyFriendsStatusChange(user._id, true, socket), then the confirmation.
\* A rejected findById is swallowed inside the notifier (second disjunct).
AuthNotify(i) ==
  /\ Running(i, "authenticate", "notify")
  /\ LET s == tasks[i].sock
         u == tasks[i].user
         ok == Ev("authenticated", u, None, 0, "Successfully authenticated")
     IN \/ last' = Step("AuthNotify", tasks[i],
                        EmitTo(NotifyFriends(NoRecv, Friends(u), u, TRUE, s), s, ok))
        \/ last' = Step("AuthNotifyRejected", tasks[i], EmitTo(NoRecv, s, ok))
  /\ tasks' = Remove(tasks, i)
  /\ UNCHANGED <<sockState, sockUser, connectedUsers, rooms, userOnline, chats, msgs, typingLog, typed, now>>

\* catch (error) of authenticate: one of its awaited calls rejected.
AuthFail(i) ==
  /\ i \in DOMAIN tasks /\ tasks[i].op = "authenticate"
  /\ tasks[i].pc \in {"findOne", "setOnline", "findChats"}
  /\ last' = Step("AuthFail", tasks[i],
                  EmitTo(NoRecv, tasks[i].sock, Ev("error", None, None, 0, "Authentication failed")))
  /\ tasks' = Remove(tasks, i)
  /\ UNCHANGED <<sockState, sockUser, connectedUsers, rooms, userOnline, chats, msgs, typingLog, typed, now>>

\* --------------------------------------------------------- disconnect
\* The transport closes: socket.io takes the socket out of all its rooms and
\* fires 'disconnect'; the handler runs up to `await User.findByIdAndUpdate`.
StartDisconnect(s) ==
  /\ sockState[s] = "open"
  /\ sockUser[s] # None => CanSuspend
  /\ sockState' = [sockState EXCEPT ![s] = "closed"]
  /\ rooms' = [rooms EXCEPT ![s] = {}]
  /\ LET task == NewTask("disconnect", s)
     IN /\ last' = Step("StartDisconnect", task, NoRecv)
        /\ IF sockUser[s] # None
           THEN /\ connectedUsers' = MapDelete(connectedUsers, sockUser[s])
                /\ tasks' = Append(tasks, [task EXCEPT !.pc = "setOffline", !.user = sockUser[s],
                                                       !.seen = [user |-> sockUser[s],
                                                                 reg |-> MapDelete(connectedUsers, sockUser[s])]])
           ELSE /\ connectedUsers' = connectedUsers
                /\ tasks' = tasks
  /\ UNCHANGED <<sockUser, userOnline, chats, msgs, typingLog, typed, now>>

\* a listener that throws when it runs for a socket that is closed already:
\* NOT the code's
DisconnectAgainThrows(s) ==
  /\ sockState[s] = "closed"
  /\ Exit([NewTask("disconnect", s) EXCEPT !.kind = "again"])
  /\ UNCHANGED <<userOnline, chats, msgs, typingLog, typed, now>>

\* The 'disconnect' listener runs once more for a socket that is closed
\* already (a duplicate disconnect signal): the same code, with the
\* socket.userId the socket has by then.
DisconnectAgain(s) ==
  /\ sockState[s] = "closed"
  /\ sockUser[s] # None => CanSuspend
  /\ LET task == [NewTask("disconnect", s) EXCEPT !.kind = "again"]
     IN /\ last' = Step("DisconnectAgain", task, NoRecv)
        /\ IF sockUser[s] # None
           THEN /\ connectedUsers' = MapDelete(connectedUsers, sockUser[s])
                /\ tasks' = Append(tasks, [task EXCEPT !.pc = "setOffline", !.user = sockUser[s],
                                                       !.seen = [user |-> sockUser[s],
                                                                 reg |-> MapDelete(connectedUsers, sockUser[s])]])
           ELSE /\ connectedUsers' = connectedUsers
                /\ tasks' = tasks
  /\ UNCHANGED <<sockState, sockUser, rooms, userOnline, chats, msgs, typingLog, typed, now>>

\* User.findByIdAndUpdate(socket.userId, {isOnline: false}) resolves; the
\* notifier is then called with the socket.userId of that moment.
DiscSetOffline(i) ==
  /\ Running(i, "disconnect", "setOffline")
  /\ userOnline' = [userOnline EXCEPT ![tasks[i].user] = FALSE]
  /\ tasks' = [tasks EXCEPT ![i].pc = "notify", ![i].user = sockUser[tasks[i].sock]]
  /\ last' = Step("DiscSetOffline", tasks[i], NoRecv)
  /\ UNCHANGED <<sockState, sockUser, connectedUsers, rooms, chats, msgs, typingLog, typed, now>>

\* notifyFriendsStatusChange(socket.userId, false, socket); a rejected
\* findById is swallowed inside the notifier (second disjunct).
DiscNotify(i) ==
  /\ Running(i, "disconnect", "notify")
  /\ LET s == tasks[i].sock
         u == tasks[i].user
     IN \/ last' = Step("DiscNotify", tasks[i], NotifyFriends(NoRecv, Friends(u), u, FALSE, s))
        \/ last' = Step("DiscNotifyRejected", tasks[i], NoRecv)
  /\ tasks' = Remove(tasks, i)
  /\ UNCHANGED <<sockState, sockUser, connectedUsers, rooms, userOnline, chats, msgs, typingLog, typed, now>>

\* catch (error) of disconnect: the status update rejected; logged only.
DiscFail(i) ==
  /\ Running(i, "disconnect", "setOffline")
  /\ last' = Step("DiscFail", tasks[i], NoRecv)
  /\ tasks' = Remove(tasks, i)
  /\ UNCHANGED <<sockState, sockUser, connectedUsers, rooms, userOnline, chats, msgs, typingLog, typed, now>>

\* ---------------------------------------------------------- join-chat
\* socket.on('join-chat'), up to `await Chat.findById`
StartJoin(s, c) ==
  /\ sockState[s] = "open"
  /\ LET task == [NewTask("join-chat", s) EXCEPT !.chat = c]
     IN IF sockUser[s] = None
        THEN /\ tasks' = tasks
             /\ last' = Step("StartJoin", task,
                             EmitTo(NoRecv, s, Ev("error", None, None, 0, "Not authenticated")))
        ELSE /\ CanSuspend
             /\ tasks' = Append(tasks, [task EXCEPT !.pc = "findChat"])
             /\ last' = Step("StartJoin", task, NoRecv)
  /\ UNCHANGED <<sockState, sockUser, connectedUsers, rooms, userOnline, chats, msgs, typingLog, typed, now>>

\* a join without the participant check: NOT the code's
JoinFindAny(i) ==
  /\ Running(i, "join-chat", "findChat")
  /\ LET s == tasks[i].sock
         c == tasks[i].chat
     IN IF c \notin DOMAIN chats
        THEN /\ last' = Step("JoinFind", tasks[i],
                             EmitTo(NoRecv, s, Ev("error", None, None, 0, "Chat not found")))
             /\ rooms' = rooms
        ELSE /\ rooms' = [rooms EXCEPT ![s] = @ \cup {c}]
             /\ last' = Step("JoinFind", tasks[i],
                             EmitTo(NoRecv, s, Ev("joined-chat", None, c, 0, None)))
  /\ tasks' = Remove(tasks, i)
  /\ UNCHANGED <<sockState, sockUser, connectedUsers, userOnline, chats, msgs, typingLog, typed, now>>

\* Chat.findById resolves: participant check, socket.join, confirmation
JoinFind(i) ==
  /\ Running(i, "join-chat", "findChat")
  /\ LET s == tasks[i].sock
         c == tasks[i].chat
     IN IF c \notin DOMAIN chats
        THEN /\ last' = Step("JoinFind", tasks[i],
                             EmitTo(NoRecv, s, Ev("error", None, None, 0, "Chat not found")))
             /\ rooms' = rooms
        ELSE IF ~IsParticipant(chats[c], sockUser[s])
        THEN /\ last' = Step("JoinFind", tasks[i],
                             EmitTo(NoRecv, s, Ev("error", None, None, 0, "Access denied")))
             /\ rooms' = rooms
        ELSE /\ rooms' = [rooms EXCEPT ![s] = @ \cup {c}]
             /\ last' = Step("JoinFind", tasks[i],
                             EmitTo(NoRecv, s, Ev("joined-chat", None, c, 0, None)))
  /\ tasks' = Remove(tasks, i)
  /\ UNCHANGED <<sockState, sockUser, connectedUsers, userOnline, chats, msgs, typingLog, typed, now>>

\* catch (error) of join-chat
JoinFail(i) ==
  /\ Running(i, "join-chat", "findChat")
  /\ last' = Step("JoinFail", tasks[i],
                  EmitTo(NoRecv, tasks[i].sock, Ev("error", None, None, 0, "Failed to join chat")))
  /\ tasks' = Remove(tasks, i)
  /\ UNCHANGED <<sockState, sockUser, connectedUsers, rooms, userOnline, chats, msgs, typingLog, typed, now>>

\* --------------------------------------------------------- leave-chat
\* a leave-chat that checks socket.userId first, as join-chat does: NOT the
\* code's
LeaveGuarded(s, c) ==
  /\ sockState[s] = "open"
  /\ IF sockUser[s] = None
     THEN /\ rooms' = rooms
          /\ last' = Step("Leave", [NewTask("leave-chat", s) EXCEPT !.chat = c],
                          EmitTo(NoRecv, s, Ev("error", None, None, 0, "Not authenticated")))
     ELSE /\ rooms' = [rooms EXCEPT ![s] = @ \ {c}]
          /\ last' = Step("Leave", [NewTask("leave-chat", s) EXCEPT !.chat = c],
                          EmitTo(NoRecv, s, Ev("left-chat", None, c, 0, None)))
  /\ UNCHANGED <<sockState, sockUser, connectedUsers, userOnline, chats, msgs, tasks, typingLog, typed, now>>

\* a leave-chat that rejects a room the socket is not in: NOT the code's
LeaveStrict(s, c) ==
  /\ sockState[s] = "open"
  /\ rooms' = [rooms EXCEPT ![s] = @ \ {c}]
  /\ last' = Step("Leave", [NewTask("leave-chat", s) EXCEPT !.chat = c],
                  EmitTo(NoRecv, s, IF c \in rooms[s]
                                    THEN Ev("left-chat", None, c, 0, None)
                                    ELSE Ev("error", None, None, 0, "Not in chat")))
  /\ UNCHANGED <<sockState, sockUser, connectedUsers, userOnline, chats, msgs, tasks, typingLog, typed, now>>

\* socket.on('leave-chat'): no guard, no await
Leave(s, c) ==
  /\ sockState[s] = "open"
  /\ rooms' = [rooms EXCEPT ![s] = @ \ {c}]
  /\ last' = Step("Leave", [NewTask("leave-chat", s) EXCEPT !.chat = c],
                  EmitTo(NoRecv, s, Ev("left-chat", None, c, 0, None)))
  /\ UNCHANGED <<sockState, sockUser, connectedUsers, userOnline, chats, msgs, tasks, typingLog, typed, now>>

\* ------------------------------------------------------- send-message
\* socket.on('send-message'), up to `await Chat.findById`
StartSend(s, c) ==
  /\ sockState[s] = "open"
  /\ LET task == [NewTask("send-message", s) EXCEPT !.chat = c]
     IN IF sockUser[s] = None
        THEN /\ tasks' = tasks
             /\ last' = Step("StartSend", task,
                             EmitTo(NoRecv, s, Ev("error", None, None, 0, "Not authenticated")))
        ELSE /\ CanSuspend
             /\ tasks' = Append(tasks, [task EXCEPT !.pc = "findChat"])
             /\ last' = Step("StartSend", task, NoRecv)
  /\ UNCHANGED <<sockState, sockUser, connectedUsers, rooms, userOnline, chats, msgs, typingLog, typed, now>>

\* a lookup without the participant check: NOT the code's
SendFindAny(i) ==
  /\ Running(i, "send-message", "findChat")
  /\ LET s == tasks[i].sock
         c == tasks[i].chat
     IN IF c \notin DOMAIN chats
        THEN /\ last' = Step("SendFind", tasks[i],
                             EmitTo(NoRecv, s, Ev("error", None, None, 0, "Chat not found")))
             /\ tasks' = Remove(tasks, i)
        ELSE /\ Len(msgs) < MaxMsgs
             /\ last' = Step("SendFind", tasks[i], NoRecv)
             /\ tasks' = [tasks EXCEPT ![i].pc = "create", ![i].user = sockUser[s]]
  /\ UNCHANGED <<sockState, sockUser, connectedUsers, rooms, userOnline, chats, msgs, typingLog, typed, now>>

\* Chat.findById resolves: participant check; Message.create is called with
\* sender: socket.userId, and the document gets its createdAt
SendFind(i) ==
  /\ Running(i, "send-message", "findChat")
  /\ LET s == tasks[i].sock
         c == tasks[i].chat
     IN IF c \notin DOMAIN chats
        THEN /\ last' = Step("SendFind", tasks[i],
                             EmitTo(NoRecv, s, Ev("error", None, None, 0, "Chat not found")))
             /\ tasks' = Remove(tasks, i)
        ELSE IF ~IsParticipant(chats[c], sockUser[s])
        THEN /\ last' = Step("SendFind", tasks[i],
                             EmitTo(NoRecv, s, Ev("error", None, None, 0, "Access denied")))
             /\ tasks' = Remove(tasks, i)
        ELSE /\ Len(msgs) < MaxMsgs
             /\ last' = Step("SendFind", tasks[i], NoRecv)
             /\ tasks' = [tasks EXCEPT ![i].pc = "create", ![i].user = sockUser[s], ![i].stamp = now]
  /\ UNCHANGED <<sockState, sockUser, connectedUsers, rooms, userOnline, chats, msgs, typingLog, typed, now>>

\* a handler that broadcasts as soon as Message.create has resolved and never
\* saves the chat: NOT the code's
SendCreateEmit(i) ==
  /\ Running(i, "send-message", "create")
  /\ Len(msgs) < MaxMsgs
  /\ msgs' = Append(msgs, [chat |-> tasks[i].chat, sender |-> tasks[i].user,
                           reactions |-> <<>>, v |-> 0, createdAt |-> tasks[i].stamp])
  /\ tasks' = Remove(tasks, i)
  /\ last' = Step("SendCreate", tasks[i],
                  ToRoom(NoRecv, tasks[i].chat,
                         Ev("new-message", tasks[i].user, tasks[i].chat, Len(msgs) + 1, None)))
  /\ UNCHANGED <<sockState, sockUser, connectedUsers, rooms, userOnline, chats, typingLog, typed, now>>

\* Message.create resolves; chat.lastMessage is assigned and chat.save() is
\* called: the pre-save hook stamps lastActivity.
SendCreate(i) ==
  /\ Running(i, "send-message", "create")
  /\ Len(msgs) < MaxMsgs
  /\ msgs' = Append(msgs, [chat |-> tasks[i].chat, sender |-> tasks[i].user,
                           reactions |-> <<>>, v |-> 0, createdAt |-> tasks[i].stamp])
  /\ tasks' = [tasks EXCEPT ![i].pc = "save", ![i].msg = Len(msgs) + 1, ![i].stamp = now]
  /\ last' = Step("SendCreate", tasks[i], NoRecv)
  /\ UNCHANGED <<sockState, sockUser, connectedUsers, rooms, userOnline, chats, typingLog, typed, now>>

\* chat.save() resolves: the modified paths lastMessage and lastActivity are
\* written.
SendSave(i) ==
  /\ Running(i, "send-message", "save")
  /\ chats' = [chats EXCEPT ![tasks[i].chat].lastMessage = tasks[i].msg,
                            ![tasks[i].chat].lastActivity = tasks[i].stamp]
  /\ tasks' = [tasks EXCEPT ![i].pc = "populate"]
  /\ last' = Step("SendSave", tasks[i], NoRecv)
  /\ UNCHANGED <<sockState, sockUser, connectedUsers, rooms, userOnline, msgs, typingLog, typed, now>>

\* a broadcast with socket.to(chatId), which skips the sender: NOT the code's
SendPopulateOthers(i) ==
  /\ Running(i, "send-message", "populate")
  /\ last' = Step("SendPopulate", tasks[i],
                  ToOthers(NoRecv, tasks[i].sock, tasks[i].chat,
                           Ev("new-message", tasks[i].user, tasks[i].chat, tasks[i].msg, None)))
  /\ tasks' = Remove(tasks, i)
  /\ UNCHANGED <<sockState, sockUser, connectedUsers, rooms, userOnline, chats, msgs, typingLog, typed, now>>

\* message.populate resolves; io.to(chatId).emit('new-message')
SendPopulate(i) ==
  /\ Running(i, "send-message", "populate")
  /\ last' = Step("SendPopulate", tasks[i],
                  ToRoom(NoRecv, tasks[i].chat,
                         Ev("new-message", tasks[i].user, tasks[i].chat, tasks[i].msg, None)))
  /\ tasks' = Remove(tasks, i)
  /\ UNCHANGED <<sockState, sockUser, connectedUsers, rooms, userOnline, chats, msgs, typingLog, typed, now>>

\* catch (error) of send-message: one of its awaited calls rejected.
SendFail(i) ==
  /\ i \in DOMAIN tasks /\ tasks[i].op = "send-message"
  /\ last' = Step("SendFail", tasks[i],
                  EmitTo(NoRecv, tasks[i].sock, Ev("error", None, None, 0, "Failed to send message")))
  /\ tasks' = Remove(tasks, i)
  /\ UNCHANGED <<sockState, sockUser, connectedUsers, rooms, userOnline, chats, msgs, typingLog, typed, now>>

\* ------------------------------------------------------------- typing
LogTyping(recv) ==
  [s \in Sockets |->
     typingLog[s] \o [k \in DOMAIN recv[s] |-> [n |-> Len(typed) + 1, ev |-> recv[s][k]]]]

\* the history of typing events that were broadcast: who sent what for which
\* chat, and the connected sockets in the chat's room at that time
Sent(s, c, kind) ==
  Append(typed, [sock |-> s, user |-> sockUser[s], kind |-> kind, chat |-> c,
                 room |-> InRoom(c) \cap Open])

\* typing handlers without the socket.userId guard: NOT the code's
TypingUnguarded(s, c, kind) ==
  /\ sockState[s] = "open"
  /\ Len(typed) < MaxTyping
  /\ typed' = Sent(s, c, kind)
  /\ LET task == [NewTask(kind, s) EXCEPT !.chat = c]
         ev == Ev(IF kind = "typing-start" THEN "user-typing" ELSE "user-stopped-typing",
                  sockUser[s], c, 0, None)
     IN /\ last' = Step("Typing", task, ToOthers(NoRecv, s, c, ev))
        /\ typingLog' = LogTyping(ToOthers(NoRecv, s, c, ev))
  /\ UNCHANGED <<sockState, sockUser, connectedUsers, rooms, userOnline, chats, msgs, tasks, now>>

\* typing handlers that broadcast with io.to(chatId), the sender included: NOT
\* the code's
TypingEcho(s, c, kind) ==
  /\ sockState[s] = "open"
  /\ LET task == [NewTask(kind, s) EXCEPT !.chat = c]
         ev == Ev(IF kind = "typing-start" THEN "user-typing" ELSE "user-stopped-typing",
                  sockUser[s], c, 0, None)
     IN IF sockUser[s] # None
        THEN /\ Len(typed) < MaxTyping
             /\ typed' = Sent(s, c, kind)
             /\ last' = Step("Typing", task, ToRoom(NoRecv, c, ev))
             /\ typingLog' = LogTyping(ToRoom(NoRecv, c, ev))
        ELSE /\ last' = Step("Typing", task, NoRecv)
             /\ UNCHANGED <<typed, typingLog>>
  /\ UNCHANGED <<sockState, sockUser, connectedUsers, rooms, userOnline, chats, msgs, tasks, now>>

\* socket.on('typing-start') / socket.on('typing-stop'): no await, no error;
\* an event of a socket without userId is dropped silently
Typing(s, c, kind) ==
  /\ sockState[s] = "open"
  /\ LET task == [NewTask(kind, s) EXCEPT !.chat = c]
         ev == Ev(IF kind = "typing-start" THEN "user-typing" ELSE "user-stopped-typing",
                  sockUser[s], c, 0, None)
     IN IF sockUser[s] # None
        THEN /\ Len(typed) < MaxTyping
             /\ typed' = Sent(s, c, kind)
             /\ last' = Step("Typing", task, ToOthers(NoRecv, s, c, ev))
             /\ typingLog' = LogTyping(ToOthers(NoRecv, s, c, ev))
        ELSE /\ last' = Step("Typing", task, NoRecv)
             /\ UNCHANGED <<typed, typingLog>>
  /\ UNCHANGED <<sockState, sockUser, connectedUsers, rooms, userOnline, chats, msgs, tasks, now>>

\* ------------------------------------------------------- add-reaction
\* messageSchema.methods.addReaction on the loaded copy: the (user, emoji)
\* entries are filtered out and the new entry is pushed.
Upsert(reactions, u, e) ==
  Append(SelectSeq(reactions, LAMBDA r : ~(r.user = u /\ r.emoji = e)),
         [user |-> u, emoji |-> e])

\* What this.save() will send for the copy (Mongoose change tracking): the
\* assignment of an equal array leaves the path unmodified, so the push goes
\* out as an append to the stored array; the assignment of a different array
\* makes save() write the whole array, guarded by the version it was loaded at.
Pending(reactions, u, e) ==
  IF SelectSeq(reactions, LAMBDA r : ~(r.user = u /\ r.emoji = e)) = reactions
  THEN [kind |-> "push", arr |-> <<[user |-> u, emoji |-> e]>>]
  ELSE [kind |-> "set", arr |-> Upsert(reactions, u, e)]

ReactBudget(m) == m \in DOMAIN msgs => msgs[m].v < MaxReacts

\* socket.on('add-reaction'), up to `await Message.findById`
StartReact(s, m, e) ==
  /\ sockState[s] = "open"
  /\ ReactBudget(m)
  /\ LET task == [NewTask("add-reaction", s) EXCEPT !.msg = m, !.emoji = e]
     IN IF sockUser[s] = None
        THEN /\ tasks' = tasks
             /\ last' = Step("StartReact", task,
                             EmitTo(NoRecv, s, Ev("error", None, None, 0, "Not authenticated")))
        ELSE /\ CanSuspend
             /\ tasks' = Append(tasks, [task EXCEPT !.pc = "findMsg"])
             /\ last' = Step("StartReact", task, NoRecv)
  /\ UNCHANGED <<sockState, sockUser, connectedUsers, rooms, userOnline, chats, msgs, typingLog, typed, now>>

\* Message.findById resolves; message.addReaction(socket.userId, emoji) changes
\* the copy and calls save()
ReactFind(i) ==
  /\ Running(i, "add-reaction", "findMsg")
  /\ LET s == tasks[i].sock
         m == tasks[i].msg
     IN IF m \notin DOMAIN msgs
        THEN /\ last' = Step("ReactFind", tasks[i],
                             EmitTo(NoRecv, s, Ev("error", None, None, 0, "Message not found")))
             /\ tasks' = Remove(tasks, i)
        ELSE /\ last' = Step("ReactFind", tasks[i], NoRecv)
             /\ tasks' = [tasks EXCEPT ![i].pc = "save", ![i].user = sockUser[s],
                                       ![i].chat = msgs[m].chat, ![i].base = msgs[m].v,
                                       ![i].delta = Pending(msgs[m].reactions, sockUser[s], tasks[i].emoji)]
  /\ UNCHANGED <<sockState, sockUser, connectedUsers, rooms, userOnline, chats, msgs, typingLog, typed, now>>

\* Document.prototype.save for the reactions path
SaveReactions(doc, task) ==
  IF task.delta.kind = "push"
  THEN [doc EXCEPT !.reactions = @ \o task.delta.arr, !.v = @ + 1]
  ELSE [doc EXCEPT !.reactions = task.delta.arr, !.v = @ + 1]

\* save() rejects with a VersionError
Stale(doc, task) == task.delta.kind = "set" /\ doc.v # task.base

\* save() resolves; io.to(message.chat).emit('reaction-added') with the
\* socket.userId of that moment
ReactSave(i) ==
  /\ Running(i, "add-reaction", "save")
  /\ ~Stale(msgs[tasks[i].msg], tasks[i])
  /\ msgs' = [msgs EXCEPT ![tasks[i].msg] = SaveReactions(@, tasks[i])]
  /\ last' = Step("ReactSave", tasks[i],
                  ToRoom(NoRecv, tasks[i].chat,
                         Ev("reaction-added", sockUser[tasks[i].sock], None, tasks[i].msg, tasks[i].emoji)))
  /\ tasks' = Remove(tasks, i)
  /\ UNCHANGED <<sockState, sockUser, connectedUsers, rooms, userOnline, chats, typingLog, typed, now>>

\* catch (error) of add-reaction: findById or save rejected
ReactFail(i) ==
  /\ i \in DOMAIN tasks /\ tasks[i].op = "add-reaction"
  /\ last' = Step("ReactFail", tasks[i],
                  EmitTo(NoRecv, tasks[i].sock, Ev("error", None, None, 0, "Failed to add reaction")))
  /\ tasks' = Remove(tasks, i)
  /\ UNCHANGED <<sockState, sockUser, connectedUsers, rooms, userOnline, chats, msgs, typingLog, typed, now>>

\* -------------------------------------------- POST /:messageId/react
\* the route up to `await Message.findById`; req.auth names a persisted user
\* (the User.findOne before it only reads that user)
StartRestReact(u, m, e) ==
  /\ CanSuspend
  /\ ReactBudget(m)
  /\ LET task == [NewTask("rest-react", None) EXCEPT !.msg = m, !.emoji = e, !.user = u]
     IN /\ tasks' = Append(tasks, [task EXCEPT !.pc = "findMsg"])
        /\ last' = Step("StartRestReact", task, NoRecv)
  /\ UNCHANGED <<sockState, sockUser, connectedUsers, rooms, userOnline, chats, msgs, typingLog, typed, now>>

\* Message.findById resolves: 404, or message.addReaction(currentUser._id,
\* emoji.trim())
RestReactFind(i) ==
  /\ Running(i, "rest-react", "findMsg")
  /\ LET m == tasks[i].msg
     IN IF m \notin DOMAIN msgs
        THEN tasks' = Remove(tasks, i)
        ELSE tasks' = [tasks EXCEPT ![i].pc = "save", ![i].base = msgs[m].v,
                                    ![i].delta = Pending(msgs[m].reactions, tasks[i].user, tasks[i].emoji)]
  /\ last' = Step("RestReactFind", tasks[i], NoRecv)
  /\ UNCHANGED <<sockState, sockUser, connectedUsers, rooms, userOnline, chats, msgs, typingLog, typed, now>>

\* save() resolves: 200
RestReactSave(i) ==
  /\ Running(i, "rest-react", "save")
  /\ ~Stale(msgs[tasks[i].msg], tasks[i])
  /\ msgs' = [msgs EXCEPT ![tasks[i].msg] = SaveReactions(@, tasks[i])]
  /\ last' = Step("RestReactSave", tasks[i], NoRecv)
  /\ tasks' = Remove(tasks, i)
  /\ UNCHANGED <<sockState, sockUser, connectedUsers, rooms, userOnline, chats, typingLog, typed, now>>

\* catch (error) of the route: 500
RestReactFail(i) ==
  /\ i \in DOMAIN tasks /\ tasks[i].op = "rest-react"
  /\ last' = Step("RestReactFail", tasks[i], NoRecv)
  /\ tasks' = Remove(tasks, i)
  /\ UNCHANGED <<sockState, sockUser, connectedUsers, rooms, userOnline, chats, msgs, typingLog, typed, now>>

\* ---------------------------------------------------------- mark-read
\* the index of the participant entry chat.participants.find(...) returns,
\* 0 when there is none
FindParticipant(chat, u) ==
  IF IsParticipant(chat, u)
  THEN CHOOSE i \in DOMAIN chat.participants :
         /\ chat.participants[i].user = u
         /\ \A j \in 1..(i - 1) : chat.participants[j].user # u
  ELSE 0

MessagesRead(s, c) == ToOthers(NoRecv, s, c, Ev("messages-read", sockUser[s], c, 0, now))

\* socket.on('mark-read'), up to `await Chat.findById`; the invocation
\* remembers (delta) how many messages were stored when the event arrived
StartMarkRead(s, c) ==
  /\ sockState[s] = "open"
  /\ LET task == [NewTask("mark-read", s) EXCEPT !.chat = c]
     IN /\ last' = Step("StartMarkRead", task, NoRecv)
        /\ IF sockUser[s] = None
           THEN tasks' = tasks
           ELSE /\ CanSuspend
                /\ tasks' = Append(tasks, [task EXCEPT !.pc = "findChat", !.delta = Len(msgs)])
  /\ UNCHANGED <<sockState, sockUser, connectedUsers, rooms, userOnline, chats, msgs, typingLog, typed, now>>

\* Chat.findById resolves; chat.updateLastRead(socket.userId) either calls
\* save() for the participant's entry or returns undefined, and then the
\* broadcast follows at once.
MarkFind(i) ==
  /\ Running(i, "mark-read", "findChat")
  /\ LET s == tasks[i].sock
         c == tasks[i].chat
     IN IF c \notin DOMAIN chats
        THEN /\ last' = Step("MarkFind", tasks[i], NoRecv)
             /\ tasks' = Remove(tasks, i)
        ELSE IF FindParticipant(chats[c], sockUser[s]) = 0
        THEN /\ last' = Step("MarkFind", tasks[i], MessagesRead(s, c))
             /\ tasks' = Remove(tasks, i)
        ELSE /\ last' = Step("MarkFind", tasks[i], NoRecv)
             /\ tasks' = [tasks EXCEPT ![i].pc = "save", ![i].stamp = now, ![i].base = chats[c].v,
                                       ![i].msg = FindParticipant(chats[c], sockUser[s])]
  /\ UNCHANGED <<sockState, sockUser, connectedUsers, rooms, userOnline, chats, msgs, typingLog, typed, now>>

\* getUnreadCount of the client, over the stored documents cs and ms: the
\* messages of chat c from other senders created later than u's lastRead;
\* none when u has no participant entry
Unread(cs, ms, c, u) ==
  IF FindParticipant(cs[c], u) = 0 THEN {}
  ELSE {m \in DOMAIN ms :
          /\ ms[m].chat = c
          /\ ms[m].sender # u
          /\ ms[m].createdAt > cs[c].participants[FindParticipant(cs[c], u)].lastRead}

\* a save() that writes lastActivity but not the participant's lastRead: NOT
\* the code's
MarkSaveStale(i) ==
  /\ Running(i, "mark-read", "save")
  /\ chats[tasks[i].chat].v = tasks[i].base
  /\ chats' = [chats EXCEPT ![tasks[i].chat].lastActivity = tasks[i].stamp]
  /\ last' = Step("MarkSave", tasks[i], MessagesRead(tasks[i].sock, tasks[i].chat))
  /\ tasks' = Remove(tasks, i)
  /\ UNCHANGED <<sockState, sockUser, connectedUsers, rooms, userOnline, msgs, typingLog, typed, now>>

\* chat.save() resolves: participants.<i>.lastRead and, from the pre-save
\* hook, lastActivity are written; then socket.to(chatId).emit('messages-read')
MarkSave(i) ==
  /\ Running(i, "mark-read", "save")
  /\ chats[tasks[i].chat].v = tasks[i].base
  /\ chats' = [chats EXCEPT ![tasks[i].chat].participants[tasks[i].msg].lastRead = tasks[i].stamp,
                            ![tasks[i].chat].lastActivity = tasks[i].stamp]
  /\ last' = Step("MarkSave", tasks[i], MessagesRead(tasks[i].sock, tasks[i].chat))
  /\ tasks' = Remove(tasks, i)
  /\ UNCHANGED <<sockState, sockUser, connectedUsers, rooms, userOnline, msgs, typingLog, typed, now>>

\* a catch that reports to the caller, as the other handlers do: NOT the
\* code's
MarkFailReported(i) ==
  /\ i \in DOMAIN tasks /\ tasks[i].op = "mark-read"
  /\ last' = Step("MarkFail", tasks[i],
                  EmitTo(NoRecv, tasks[i].sock, Ev("error", None, None, 0, "Failed to mark read")))
  /\ tasks' = Remove(tasks, i)
  /\ UNCHANGED <<sockState, sockUser, connectedUsers, rooms, userOnline, chats, msgs, typingLog, typed, now>>

\* catch (error) of mark-read: logged only
MarkFail(i) ==
  /\ i \in DOMAIN tasks /\ tasks[i].op = "mark-read"
  /\ last' = Step("MarkFail", tasks[i], NoRecv)
  /\ tasks' = Remove(tasks, i)
  /\ UNCHANGED <<sockState, sockUser, connectedUsers, rooms, userOnline, chats, msgs, typingLog, typed, now>>

\* ------------------------------------------------- REST: /api/chats
\* The routes run behind `protect` and getUserFromClerk; the requests below
\* come from a persisted user u, so `User.findOne({ clerkId })` finds u.  Users
\* are never created or deleted here, so that lookup and the validation
\* `User.find({ _id: { $in: participantIds } })` read the same whenever they
\* run and are taken together with the step next to them.  A request names at
\* most one participant id.
NewChatIds == {"c3"}

\* the bodies of the requests: no participant id, or one
IdLists == {<<>>} \cup {<<u>> : u \in Users}

\* User.find({ _id: { $in: ids } }).length === ids.length
ValidIds(ids) == Cardinality({ids[k] : k \in DOMAIN ids} \cap Users) = Len(ids)

\* Chat.findDirectChat(a, b): a direct chat whose participants.user holds both
FindDirectChat(a, b) ==
  {c \in DOMAIN chats : /\ chats[c].type = "direct"
                         /\ IsParticipant(chats[c], a)
                         /\ IsParticipant(chats[c], b)}

EditBudget(c) == c \in DOMAIN chats => chats[c].v < MaxEdits

\* POST /api/chats, up to `await Chat.findDirectChat` (direct) or
\* `await Chat.create` (group); a direct chat without exactly one participant
\* id and a list that names an unknown user are answered 400
StartRestCreate(u, type, ids) ==
  /\ CanSuspend
  /\ NewChatIds \ DOMAIN chats # {}
  /\ LET task == [NewTask("rest-create", None) EXCEPT !.user = u, !.kind = type, !.target = ids]
     IN /\ last' = Step("StartRestCreate", task, NoRecv)
        /\ IF type = "direct"
           THEN IF Len(ids) # 1
                THEN tasks' = tasks
                ELSE tasks' = Append(tasks, [task EXCEPT !.pc = "findDirect"])
           ELSE IF ~ValidIds(ids)
                THEN tasks' = tasks
                ELSE tasks' = Append(tasks, [task EXCEPT !.pc = "create"])
  /\ UNCHANGED <<sockState, sockUser, connectedUsers, rooms, userOnline, chats, msgs, typingLog, typed, now>>

\* Chat.findDirectChat resolves: an existing chat is answered 200, otherwise
\* the participant is validated and Chat.create is called
RestCreateFind(i) ==
  /\ Running(i, "rest-create", "findDirect")
  /\ IF FindDirectChat(tasks[i].user, tasks[i].target[1]) # {} \/ ~ValidIds(tasks[i].target)
     THEN tasks' = Remove(tasks, i)
     ELSE tasks' = [tasks EXCEPT ![i].pc = "create"]
  /\ last' = Step("RestCreateFind", tasks[i], NoRecv)
  /\ UNCHANGED <<sockState, sockUser, connectedUsers, rooms, userOnline, chats, msgs, typingLog, typed, now>>

\* chatParticipants: the current user as admin, then every id of the request
\* as member
ChatParticipants(u, ids) ==
  <<[user |-> u, role |-> "admin", lastRead |-> now]>>
    \o [k \in DOMAIN ids |-> [user |-> ids[k], role |-> "member", lastRead |-> now]]

\* Chat.create resolves, then populate and 201
RestCreateSave(i) ==
  /\ Running(i, "rest-create", "create")
  /\ NewChatIds \ DOMAIN chats # {}
  /\ LET c == CHOOSE x \in NewChatIds \ DOMAIN chats : TRUE
     IN chats' = [x \in DOMAIN chats \cup {c} |->
                   IF x = c
                   THEN [type |-> tasks[i].kind,
                         participants |-> ChatParticipants(tasks[i].user, tasks[i].target),
                         lastMessage |-> 0, lastActivity |-> now, v |-> 0]
                   ELSE chats[x]]
  /\ last' = Step("RestCreateSave", tasks[i], NoRecv)
  /\ tasks' = Remove(tasks, i)
  /\ UNCHANGED <<sockState, sockUser, connectedUsers, rooms, userOnline, msgs, typingLog, typed, now>>

\* POST /api/chats/:chatId/participants, up to `await Chat.findById`
StartRestAdd(u, c, ids) ==
  /\ CanSuspend
  /\ EditBudget(c)
  /\ LET task == [NewTask("rest-add", None) EXCEPT !.user = u, !.chat = c, !.target = ids]
     IN /\ tasks' = Append(tasks, [task EXCEPT !.pc = "findChat"])
        /\ last' = Step("StartRestAdd", task, NoRecv)
  /\ UNCHANGED <<sockState, sockUser, connectedUsers, rooms, userOnline, chats, msgs, typingLog, typed, now>>

\* Chat.findById resolves: 404 without the chat, 400 for a direct chat, 403
\* when the caller is no participant (settings.allowInvites keeps its default,
\* true, no route writes it), 400 for an unknown id; with no id to add the
\* chat is populated and answered, otherwise chat.addParticipant(id) runs on
\* the loaded document up to its save()
RestAddFind(i) ==
  /\ Running(i, "rest-add", "findChat")
  /\ LET c == tasks[i].chat
     IN IF \/ c \notin DOMAIN chats
           \/ chats[c].type # "group"
           \/ ~IsParticipant(chats[c], tasks[i].user)
           \/ ~ValidIds(tasks[i].target)
           \/ tasks[i].target = <<>>
        THEN tasks' = Remove(tasks, i)
        ELSE tasks' = [tasks EXCEPT ![i].pc = "save", ![i].base = chats[c].v,
                                    ![i].doc = chats[c].participants, ![i].stamp = now]
  /\ last' = Step("RestAddFind", tasks[i], NoRecv)
  /\ UNCHANGED <<sockState, sockUser, connectedUsers, rooms, userOnline, chats, msgs, typingLog, typed, now>>

\* addParticipant's save() resolves.  When the loaded document held no entry
\* of the user, the entry was pushed and goes out as a $push with an
\* increment of the version and no condition on it; otherwise only the
\* pre-save hook's lastActivity is written.
RestAddSave(i) ==
  /\ Running(i, "rest-add", "save")
  /\ LET c == tasks[i].chat
         id == tasks[i].target[1]
         loaded == [participants |-> tasks[i].doc]
     IN IF IsParticipant(loaded, id)
        THEN chats' = [chats EXCEPT ![c].lastActivity = tasks[i].stamp]
        ELSE chats' = [chats EXCEPT
               ![c].participants = Append(@, [user |-> id, role |-> "member", lastRead |-> tasks[i].stamp]),
               ![c].lastActivity = tasks[i].stamp,
               ![c].v = @ + 1]
  /\ last' = Step("RestAddSave", tasks[i], NoRecv)
  /\ tasks' = Remove(tasks, i)
  /\ UNCHANGED <<sockState, sockUser, connectedUsers, rooms, userOnline, msgs, typingLog, typed, now>>

\* DELETE /api/chats/:chatId/participants/:participantId, up to
\* `await Chat.findById`
StartRestRemove(u, c, id) ==
  /\ CanSuspend
  /\ EditBudget(c)
  /\ LET task == [NewTask("rest-remove", None) EXCEPT !.user = u, !.chat = c, !.target = <<id>>]
     IN /\ tasks' = Append(tasks, [task EXCEPT !.pc = "findChat"])
        /\ last' = Step("StartRestRemove", task, NoRecv)
  /\ UNCHANGED <<sockState, sockUser, connectedUsers, rooms, userOnline, chats, msgs, typingLog, typed, now>>

\* userParticipant && userParticipant.role === "admin"
IsAdmin(chat, u) ==
  FindParticipant(chat, u) # 0 /\ chat.participants[FindParticipant(chat, u)].role = "admin"

\* Chat.findById resolves: 404 without the chat, 403 unless the caller removes
\* itself or is an admin of the chat; then chat.removeParticipant(id) runs on
\* the loaded document up to its save().  The type of the chat is not looked
\* at.
RestRemoveFind(i) ==
  /\ Running(i, "rest-remove", "findChat")
  /\ LET c == tasks[i].chat
         u == tasks[i].user
     IN IF \/ c \notin DOMAIN chats
           \/ (tasks[i].target[1] # u /\ ~IsAdmin(chats[c], u))
        THEN tasks' = Remove(tasks, i)
        ELSE tasks' = [tasks EXCEPT ![i].pc = "save", ![i].base = chats[c].v,
                                    ![i].doc = chats[c].participants, ![i].stamp = now]
  /\ last' = Step("RestRemoveFind", tasks[i], NoRecv)
  /\ UNCHANGED <<sockState, sockUser, connectedUsers, rooms, userOnline, chats, msgs, typingLog, typed, now>>

\* this.participants.filter((p) => p.user.toString() !== userId.toString())
Without(ps, id) == SelectSeq(ps, LAMBDA p : p.user # id)

\* removeParticipant's save() resolves.  When the filter dropped an entry the
\* whole array goes out as a $set under the condition that the version is the
\* loaded one, and the version is incremented; a changed version is a
\* VersionError (500) and nothing is written.  When the filter dropped
\* nothing only lastActivity is written.
RestRemoveSave(i) ==
  /\ Running(i, "rest-remove", "save")
  /\ LET c == tasks[i].chat
         kept == Without(tasks[i].doc, tasks[i].target[1])
     IN IF kept = tasks[i].doc
        THEN chats' = [chats EXCEPT ![c].lastActivity = tasks[i].stamp]
        ELSE IF chats[c].v = tasks[i].base
        THEN chats' = [chats EXCEPT ![c].participants = kept,
                                    ![c].lastActivity = tasks[i].stamp,
                                    ![c].v = @ + 1]
        ELSE chats' = chats
  /\ last' = Step("RestRemoveSave", tasks[i], NoRecv)
  /\ tasks' = Remove(tasks, i)
  /\ UNCHANGED <<sockState, sockUser, connectedUsers, rooms, userOnline, msgs, typingLog, typed, now>>

\* catch (error) of the three routes: a storage call rejects, 500
RestChatFail(i) ==
  /\ i \in DOMAIN tasks /\ tasks[i].op \in {"rest-create", "rest-add", "rest-remove"}
  /\ last' = Step("RestChatFail", tasks[i], NoRecv)
  /\ tasks' = Remove(tasks, i)
  /\ UNCHANGED <<sockState, sockUser, connectedUsers, rooms, userOnline, chats, msgs, typingLog, typed, now>>

Slots == 1..(MaxInFlight + 1)
Known == {"k1", "k2"}

\* --------------------------------------------- events without payload
\* what the catch block of an async handler reports to the caller
Generic(op) ==
  CASE op = "authenticate" -> "Authentication failed"
    [] op = "join-chat" -> "Failed to join chat"
    [] op = "send-message" -> "Failed to send message"
    [] op = "add-reaction" -> "Failed to add reaction"

AsyncOps == {"authenticate", "join-chat", "send-message", "add-reaction", "mark-read"}
SyncOps == {"leave-chat", "typing-start", "typing-stop"}

\* An event that arrives without a payload object: `const { ... } = data`
\* throws a TypeError.  In the async handlers the destructuring is inside
\* try, the catch reports the generic error (mark-read: only logs); the
\* listeners of leave-chat, typing-start and typing-stop have no try/catch,
\* so the exception is uncaught.
NoPayload(s, op) ==
  /\ sockState[s] = "open"
  /\ IF op \in SyncOps
     THEN Exit(NewTask(op, s))
     ELSE /\ last' = Step("NoPayload", NewTask(op, s),
                          IF op = "mark-read" THEN NoRecv
                          ELSE EmitTo(NoRecv, s, Ev("error", None, None, 0, Generic(op))))
          /\ UNCHANGED <<sockState, sockUser, connectedUsers, rooms, tasks>>
  /\ UNCHANGED <<userOnline, chats, msgs, typingLog, typed, now>>

\* the client of s has no event under way
Quiet(s) == \A i \in DOMAIN tasks : tasks[i].sock # s

\* the client of s has no authenticate under way: it waits for the answer
\* before it sends the next one
Calm(s) == \A i \in DOMAIN tasks : ~(tasks[i].sock = s /\ tasks[i].op = "authenticate")

\* the steps of the authenticate and disconnect handlers
AuthSteps ==
  \/ \E i \in Slots : AuthFindOne(i)
  \/ \E i \in Slots : AuthSetOnline(i)
  \/ \E i \in Slots : AuthFindChats(i)
  \/ \E i \in Slots : AuthNotify(i)
  \/ \E i \in Slots : AuthFail(i)

DiscSteps ==
  \/ \E i \in Slots : DiscSetOffline(i)
  \/ \E i \in Slots : DiscNotify(i)
  \/ \E i \in Slots : DiscFail(i)

\* Connections, authentication and presence.
NextAuth ==
  \/ \E s \in Sockets : Connect(s)
  \/ \E s \in Sockets, k \in Known \cup {"kx"} : Calm(s) /\ StartAuthenticate(s, k)
  \/ \E s \in Sockets : StartDisconnect(s)
  \/ AuthSteps
  \/ DiscSteps

SpecAuth == Init /\ [][NextAuth]_vars

\* In the specifications below every client signs in once, socket s1 as
\* user u1 and socket s2 as user u2, and s1 is the client that acts.
KeyOf(s) == IF s = "s1" THEN "k1" ELSE "k2"

SignIn == \E s \in Sockets : sockUser[s] = None /\ Calm(s) /\ StartAuthenticate(s, KeyOf(s))

\* The events of a client that never signs in (its key belongs to nobody),
\* next to the sign-in, presence and departure of the other client.
NextGuard ==
  \/ \E s \in Sockets : Connect(s)
  \/ Calm("s1") /\ StartAuthenticate("s1", "kx")
  \/ Calm("s2") /\ StartAuthenticate("s2", "k2")
  \/ StartDisconnect("s2")
  \/ AuthSteps
  \/ DiscSteps
  \/ \E c \in ChatIds : StartJoin("s1", c)
  \/ \E c \in ChatIds : Leave("s1", c)
  \/ \E c \in ChatIds : StartSend("s1", c)
  \/ \E c \in ChatIds, kind \in {"typing-start", "typing-stop"} :
       Typing("s1", c, kind)
  \/ \E m \in MsgIds, e \in Emojis : StartReact("s1", m, e)
  \/ \E c \in ChatIds : StartMarkRead("s1", c)

SpecGuard == InitStored /\ [][NextGuard]_vars

\* Rooms: joining and leaving.
NextRoom ==
  \/ \E s \in Sockets : Connect(s)
  \/ SignIn
  \/ AuthSteps
  \/ \E s \in Sockets, c \in ChatIds : StartJoin(s, c)
  \/ \E i \in Slots : JoinFind(i)
  \/ \E i \in Slots : JoinFail(i)
  \/ \E s \in Sockets, c \in ChatIds : Leave(s, c)

SpecRoom == Init /\ [][NextRoom]_vars

\* Typing indicators, next to clients that enter and leave the rooms.
NextTyping ==
  \/ \E s \in Sockets : Connect(s)
  \/ SignIn
  \/ AuthSteps
  \/ \E s \in Sockets, c \in Chats : Leave(s, c)
  \/ \E c \in Chats, kind \in {"typing-start", "typing-stop"} : Typing("s1", c, kind)

SpecTyping == Init /\ [][NextTyping]_vars

\* Messages.
NextSend ==
  \/ \E s \in Sockets : Connect(s)
  \/ SignIn
  \/ AuthSteps
  \/ \E s \in Sockets, c \in Chats : Leave(s, c)
  \/ \E c \in ChatIds : StartSend("s1", c)
  \/ \E i \in Slots : SendFind(i)
  \/ \E i \in Slots : SendCreate(i)
  \/ \E i \in Slots : SendSave(i)
  \/ \E i \in Slots : SendPopulate(i)
  \/ \E i \in Slots : SendFail(i)

SpecSend == Init /\ [][NextSend]_vars

\* no mark-read is under way
NoMark == \A i \in DOMAIN tasks : tasks[i].op # "mark-read"

\* Reading: s2 (user u2) sends to chat c1, one message at a time, and s1 marks
\* chats as read, one at a time, before and after it has signed in as u1,
\* while the clock advances.
NextRead ==
  \/ \E s \in Sockets : Connect(s)
  \/ SignIn
  \/ AuthSteps
  \/ Quiet("s2") /\ StartSend("s2", "c1")
  \/ \E i \in Slots : SendFind(i)
  \/ \E i \in Slots : SendCreate(i)
  \/ \E i \in Slots : SendSave(i)
  \/ \E i \in Slots : SendPopulate(i)
  \/ \E c \in ChatIds : NoMark /\ StartMarkRead("s1", c)
  \/ \E i \in Slots : MarkFind(i)
  \/ \E i \in Slots : MarkSave(i)
  \/ \E i \in Slots : MarkFail(i)
  \/ Tick

SpecRead == Init /\ [][NextRead]_vars

\* Events with and without a payload object, next to the sign-in.
NextPayload ==
  \/ \E s \in Sockets : Connect(s)
  \/ SignIn
  \/ AuthSteps
  \/ \E s \in Sockets, c \in Chats : Leave(s, c)
  \/ \E s \in Sockets, op \in AsyncOps \cup SyncOps : NoPayload(s, op)

SpecPayload == Init /\ [][NextPayload]_vars

\* Every way a handler reports an error: s1 acts, one event at a time, before
\* and after it has signed in, with a known or an unknown key, on chats and messages that
\* exist or do not, with and without payload, while storage calls may fail;
\* s2 signs in and sits in the rooms of its chats.
NextErrors ==
  \/ \E s \in Sockets : Connect(s)
  \/ \E k \in {"k1", "kx"} : sockUser["s1"] = None /\ Quiet("s1") /\ StartAuthenticate("s1", k)
  \/ sockUser["s2"] = None /\ Calm("s2") /\ StartAuthenticate("s2", "k2")
  \/ AuthSteps
  \/ \E c \in ChatIds : Quiet("s1") /\ StartJoin("s1", c)
  \/ \E i \in Slots : JoinFind(i)
  \/ \E i \in Slots : JoinFail(i)
  \/ \E c \in ChatIds : Quiet("s1") /\ StartSend("s1", c)
  \/ \E i \in Slots : SendFind(i)
  \/ \E i \in Slots : SendCreate(i)
  \/ \E i \in Slots : SendSave(i)
  \/ \E i \in Slots : SendPopulate(i)
  \/ \E i \in Slots : SendFail(i)
  \/ \E m \in MsgIds, e \in Emojis : Quiet("s1") /\ StartReact("s1", m, e)
  \/ \E i \in Slots : ReactFind(i)
  \/ \E i \in Slots : ReactSave(i)
  \/ \E i \in Slots : ReactFail(i)
  \/ \E c \in ChatIds : Quiet("s1") /\ StartMarkRead("s1", c)
  \/ \E i \in Slots : MarkFind(i)
  \/ \E i \in Slots : MarkSave(i)
  \/ \E i \in Slots : MarkFail(i)
  \/ \E op \in AsyncOps : Quiet("s1") /\ NoPayload("s1", op)

SpecErrors == InitStored /\ [][NextErrors]_vars

\* The participant lists, written by the REST routes: u3 creates chats, u2
\* and u3 add u1 to a chat, u1 and u2 remove u1 or u3 from a chat.
NextChats ==
  \/ \E type \in {"direct", "group"}, ids \in {<<>>, <<"u1">>, <<"u3">>} :
       StartRestCreate("u3", type, ids)
  \/ \E i \in Slots : RestCreateFind(i)
  \/ \E i \in Slots : RestCreateSave(i)
  \/ \E u \in {"u2", "u3"}, c \in Chats, ids \in {<<>>, <<"u1">>} : StartRestAdd(u, c, ids)
  \/ \E i \in Slots : RestAddFind(i)
  \/ \E i \in Slots : RestAddSave(i)
  \/ \E u \in {"u1", "u2"}, c \in Chats, id \in {"u1", "u3"} : StartRestRemove(u, c, id)
  \/ \E i \in Slots : RestRemoveFind(i)
  \/ \E i \in Slots : RestRemoveSave(i)
  \/ \E i \in Slots : RestChatFail(i)

SpecChats == Init /\ [][NextChats]_vars

\* no add-reaction is under way
NoReact == \A i \in DOMAIN tasks : tasks[i].op # "add-reaction"

\* Messages and the reactions to them: s1 sends to chat c1 and reacts, one
\* reaction at a time, to the first message; s2 listens.
NextWrite ==
  \/ \E s \in Sockets : Connect(s)
  \/ SignIn
  \/ AuthSteps
  \/ StartSend("s1", "c1")
  \/ \E i \in Slots : SendFind(i)
  \/ \E i \in Slots : SendCreate(i)
  \/ \E i \in Slots : SendSave(i)
  \/ \E i \in Slots : SendPopulate(i)
  \/ \E i \in Slots : SendFail(i)
  \/ \E e \in Emojis : NoReact /\ StartReact("s1", 1, e)
  \/ \E i \in Slots : ReactFind(i)
  \/ \E i \in Slots : ReactSave(i)
  \/ \E i \in Slots : ReactFail(i)

SpecWrite == Init /\ [][NextWrite]_vars

\* The teardown, run once and run again, next to the sign-in.
NextTeardown ==
  \/ \E s \in Sockets : Connect(s)
  \/ SignIn
  \/ AuthSteps
  \/ \E s \in Sockets : StartDisconnect(s)
  \/ \E s \in Sockets : DisconnectAgain(s)
  \/ DiscSteps

SpecTeardown == Init /\ [][NextTeardown]_vars

\* Every connection authenticates at most once (no storage call fails, so a
\* started authenticate always sets the socket's user) and may disconnect at
\* any time.
NextOnce ==
  \/ \E s \in Sockets : Connect(s)
  \/ SignIn
  \/ \E i \in Slots : AuthFindOne(i)
  \/ \E i \in Slots : AuthSetOnline(i)
  \/ \E i \in Slots : AuthFindChats(i)
  \/ \E i \in Slots : AuthNotify(i)
  \/ \E s \in Sockets : StartDisconnect(s)
  \/ \E i \in Slots : DiscSetOffline(i)
  \/ \E i \in Slots : DiscNotify(i)

SpecOnce == Init /\ [][NextOnce]_vars

\* Two connections of one user: each socket authenticates at most once, as
\* u1, and may disconnect at any time; no storage call fails.
NextShared ==
  \/ \E s \in Sockets : Connect(s)
  \/ \E s \in Sockets : sockUser[s] = None /\ Calm(s) /\ StartAuthenticate(s, "k1")
  \/ \E i \in Slots : AuthFindOne(i)
  \/ \E i \in Slots : AuthSetOnline(i)
  \/ \E i \in Slots : AuthFindChats(i)
  \/ \E i \in Slots : AuthNotify(i)
  \/ \E s \in Sockets : StartDisconnect(s)
  \/ \E i \in Slots : DiscSetOffline(i)
  \/ \E i \in Slots : DiscNotify(i)

SpecShared == Init /\ [][NextShared]_vars

\* A connection that authenticates again: every client waits for the answer
\* to its authenticate before it sends the next one, under the same or another
\* identity, and closes only when none of its events is under way; no storage
\* call fails.
NextReauth ==
  \/ \E s \in Sockets : Connect(s)
  \/ \E s \in Sockets, k \in Known : Calm(s) /\ StartAuthenticate(s, k)
  \/ \E i \in Slots : AuthFindOne(i)
  \/ \E i \in Slots : AuthSetOnline(i)
  \/ \E i \in Slots : AuthFindChats(i)
  \/ \E i \in Slots : AuthNotify(i)
  \/ \E s \in Sockets : Quiet(s) /\ StartDisconnect(s)
  \/ \E i \in Slots : DiscSetOffline(i)
  \/ \E i \in Slots : DiscNotify(i)

SpecReauth == Init /\ [][NextReauth]_vars

\* The group chat c2: s1 signs in as u3 and s2 as u2, u2 sends to the chat,
\* and u3 is taken out of it over REST, by itself or by the admin u2; no
\* storage call fails.
NextEvict ==
  \/ \E s \in Sockets : Connect(s)
  \/ \E s \in Sockets : /\ sockUser[s] = None /\ Calm(s)
                         /\ StartAuthenticate(s, IF s = "s1" THEN "k3" ELSE "k2")
  \/ \E i \in Slots : AuthFindOne(i)
  \/ \E i \in Slots : AuthSetOnline(i)
  \/ \E i \in Slots : AuthFindChats(i)
  \/ \E i \in Slots : AuthNotify(i)
  \/ StartSend("s2", "c2")
  \/ \E i \in Slots : SendFind(i)
  \/ \E i \in Slots : SendCreate(i)
  \/ \E i \in Slots : SendSave(i)
  \/ \E i \in Slots : SendPopulate(i)
  \/ \E u \in {"u2", "u3"} : StartRestRemove(u, "c2", "u3")
  \/ \E i \in Slots : RestRemoveFind(i)
  \/ \E i \in Slots : RestRemoveSave(i)

SpecEvict == Init /\ [][NextEvict]_vars

\* Concurrent messages of u1 to chat c1; no storage call fails.
NextLast ==
  \/ \E s \in Sockets : Connect(s)
  \/ SignIn
  \/ \E i \in Slots : AuthFindOne(i)
  \/ \E i \in Slots : AuthSetOnline(i)
  \/ \E i \in Slots : AuthFindChats(i)
  \/ \E i \in Slots : AuthNotify(i)
  \/ StartSend("s1", "c1")
  \/ \E i \in Slots : SendFind(i)
  \/ \E i \in Slots : SendCreate(i)
  \/ \E i \in Slots : SendSave(i)
  \/ \E i \in Slots : SendPopulate(i)

SpecLast == Init /\ [][NextLast]_vars

\* Reactions, from the socket and from the REST route.
NextReact ==
  \/ \E s \in Sockets : Connect(s)
  \/ SignIn
  \/ AuthSteps
  \/ \E m \in {1, 2}, e \in Emojis : StartReact("s1", m, e)
  \/ \E i \in Slots : ReactFind(i)
  \/ \E i \in Slots : ReactSave(i)
  \/ \E i \in Slots : ReactFail(i)
  \/ \E u \in {"u1", "u2"}, m \in {1, 2}, e \in Emojis : StartRestReact(u, m, e)
  \/ \E i \in Slots : RestReactFind(i)
  \/ \E i \in Slots : RestReactSave(i)
  \/ \E i \in Slots : RestReactFail(i)

SpecReact == InitStored /\ [][NextReact]_vars

\* ================================================================ claims
NotAuthenticated == Ev("error", None, None, 0, "Not authenticated")

LeftChat(c) == Ev("left-chat", None, c, 0, None)

\* the client of s received ev, once, and no other client received anything
Only(s, ev) == [o \in Sockets |-> IF o = s THEN <<ev>> ELSE <<>>]

\* n copies of ev
Copies(n, ev) == [k \in 1..n |-> ev]

\* the step being taken handles one of the events `acts`, sent on a socket
\* that has no userId
FromUnauthenticated(acts) == last'.act \in acts /\ sockUser[last'.task.sock] = None

Found(clerk) == {u \in Users : ClerkOf(u) = clerk}

\* C3: the registry holds at most one entry per user in every state, and when
\* an authenticate for user U finds U while the registry entry of U names a
\* different socket, then afterwards the entry of U names the new socket and
\* no entry names the older socket.
C3_LastConnectionWins ==
  [][/\ \A u \in Users : Cardinality(MapGet(connectedUsers', u)) <= 1
     /\ last'.act = "AuthFindOne"
          => \A u \in Found(last'.task.clerk) :
               \A o \in MapGet(connectedUsers, u) \ {last'.task.sock} :
                 /\ MapGet(connectedUsers', u) = {last'.task.sock}
                 /\ \A e \in connectedUsers' : e.socketId # o]_vars

NewMessage(task) == Ev("new-message", sockUser[task.sock], task.chat, task.msg, None)

\* the step being taken belongs to a send-message whose caller is a
\* participant of the chat it names
SendByParticipant ==
  /\ last'.task.op = "send-message"
  /\ last'.task.chat \in Chats
  /\ IsParticipant(chats[last'.task.chat], sockUser[last'.task.sock])

\* C4: a send-message of an authenticated participant whose storage calls all
\* succeed is accepted by the participant check, persists exactly one new
\* Message, whose sender is the caller and whose chat is the named chat, sets
\* the chat's lastMessage to that Message, and delivers exactly one new-message
\* for it to every connection that is in the chat's room at the broadcast, and
\* to no other connection.
C4_SendPersistsAndBroadcasts ==
  [][SendByParticipant =>
       LET t == last'.task
           s == last'.task.sock
       IN /\ last'.act = "SendFind"
               => \E i \in DOMAIN tasks' :
                    tasks'[i] = [t EXCEPT !.pc = "create", !.user = sockUser[s], !.stamp = now]
          /\ last'.act = "SendCreate"
               => /\ Len(msgs') = Len(msgs) + 1
                  /\ SubSeq(msgs', 1, Len(msgs)) = msgs
                  /\ msgs'[Len(msgs')].sender = sockUser[s]
                  /\ msgs'[Len(msgs')].chat = t.chat
          /\ last'.act # "SendCreate" => msgs' = msgs
          /\ last'.act = "SendSave"
               => /\ chats'[t.chat].lastMessage = t.msg
                  /\ msgs[t.msg].sender = sockUser[s]
                  /\ msgs[t.msg].chat = t.chat
          /\ last'.act = "SendPopulate"
               => \A o \in Sockets :
                    last'.recv[o] = IF o \in Open /\ t.chat \in rooms[o]
                                    THEN <<NewMessage(t)>> ELSE <<>>]_vars

\* a broadcast has reached both clients and the chat points at the message
C4_Witness ==
  /\ last.act = "SendPopulate"
  /\ \A o \in Sockets : last.recv[o] = <<NewMessage(last.task)>>
  /\ chats[last.task.chat].lastMessage = last.task.msg
  /\ msgs[last.task.msg].sender = sockUser[last.task.sock]

\* C5: when the participant check of a send-message finds that the caller is
\* not a participant of the (existing) chat, the handler ends there: no Message
\* is persisted, the chat's lastMessage and lastActivity (and every other
\* persisted field) stay as they are, nobody receives a new-message, and the
\* caller, and only the caller, receives one error "Access denied".
C5_NonParticipantDenied ==
  [][(/\ last'.act = "SendFind"
      /\ last'.task.chat \in Chats
      /\ ~IsParticipant(chats[last'.task.chat], sockUser[last'.task.sock]))
       => /\ UNCHANGED <<msgs, chats, userOnline>>
          /\ last'.recv = Only(last'.task.sock, Ev("error", None, None, 0, "Access denied"))
          /\ \E i \in DOMAIN tasks : tasks[i] = last'.task /\ tasks' = Remove(tasks, i)]_vars

\* a non-participant has just been denied
C5_Witness ==
  /\ last.act = "SendFind"
  /\ last.task.chat \in Chats
  /\ ~IsParticipant(chats[last.task.chat], sockUser[last.task.sock])
  /\ last.recv[last.task.sock] # <<>>
  /\ msgs = <<>>

C7_OneReactionPerPair ==
  \A m \in DOMAIN msgs :
    \A i, j \in DOMAIN msgs[m].reactions :
      (/\ msgs[m].reactions[i].user = msgs[m].reactions[j].user
       /\ msgs[m].reactions[i].emoji = msgs[m].reactions[j].emoji) => i = j

\* the typing events client o received that stem from the n-th typing event
\* sent, in the order of their arrival
Heard(o, n) == SelectSeq(typingLog[o], LAMBDA x : x.n = n)

\* C8: when an authenticated client A sends typing-start and later typing-stop
\* for chat C, every other client that is in the room of C at both times has
\* received user-typing {A, C} and then user-stopped-typing {A, C}, one of
\* each and in that order, and A's own connection has received neither.
C8_TypingOrder ==
  \A i, j \in DOMAIN typed :
    (/\ i < j
     /\ typed[i].sock = typed[j].sock
     /\ typed[i].chat = typed[j].chat
     /\ typed[i].kind = "typing-start"
     /\ typed[j].kind = "typing-stop"
     /\ typed[i].user # None)
      => LET a == typed[i].sock
             c == typed[i].chat
         IN /\ \A b \in (typed[i].room \cap typed[j].room) \ {a} :
                 /\ Heard(b, i) = <<[n |-> i, ev |-> Ev("user-typing", typed[i].user, c, 0, None)]>>
                 /\ Heard(b, j) = <<[n |-> j, ev |-> Ev("user-stopped-typing", typed[j].user, c, 0, None)]>>
                 /\ \E p, q \in DOMAIN typingLog[b] :
                      p < q /\ typingLog[b][p].n = i /\ typingLog[b][q].n = j
            /\ Heard(a, i) = <<>>
            /\ Heard(a, j) = <<>>

\* A has sent typing-start and typing-stop for a chat whose room held the other
\* client, and that client has heard both
C8_Witness ==
  /\ Len(typed) = 2
  /\ typed[1].kind = "typing-start" /\ typed[2].kind = "typing-stop"
  /\ typed[1].sock = typed[2].sock /\ typed[1].chat = typed[2].chat
  /\ typed[1].user # None
  /\ \E b \in (typed[1].room \cap typed[2].room) \ {typed[1].sock} : Len(typingLog[b]) = 2

StatusChange(u, isOnline) == Ev("friend-status-change", u, None, 0, isOnline)

\* C9 as stated: when the disconnect handler of a socket that was
\* authenticated as U ends, every client has received from it one
\* friend-status-change {U, false} per friend of U whose registry entry named
\* its socket at the moment of the disconnect, and nothing else.
C9_FriendsAtDisconnect ==
  [][last'.act \in {"DiscNotify", "DiscNotifyRejected", "DiscFail"}
       => LET seen == last'.task.seen
          IN \A o \in Sockets :
               last'.recv[o] =
                 Copies(Cardinality({f \in Friends(seen.user) :
                                       [userId |-> f, socketId |-> o] \in seen.reg}),
                        StatusChange(seen.user, FALSE))]_vars

\* C9, amended: the disconnect handler notifies at the time its notifier looks
\* the friends up, after the online-flag write and the friend-list load have
\* succeeded: every connected client then receives one friend-status-change
\* {U, false}, U being the socket's user id at that time, per friend of U
\* whose registry entry names its socket at that time, and nothing else; a
\* friend without an entry, or whose entry names a socket that is no longer
\* connected, receives nothing; no other step of the handler, and no handler
\* whose storage call fails, delivers anything, an error included.
C9_FriendsAtLookup ==
  [][/\ last'.act = "DiscNotify"
          => \A o \in Sockets :
               last'.recv[o] =
                 Copies(IF o \in Open
                        THEN Cardinality({f \in Friends(last'.task.user) :
                                            [userId |-> f, socketId |-> o] \in connectedUsers})
                        ELSE 0,
                        StatusChange(last'.task.user, FALSE))
     /\ last'.act \in {"StartDisconnect", "DiscSetOffline", "DiscNotifyRejected", "DiscFail"}
          => last'.recv = NoRecv]_vars

\* a friend has just been told that the user went offline
C9_Witness ==
  /\ last.act = "DiscNotify"
  /\ \E o \in Sockets : last.recv[o] = <<StatusChange(last.task.user, FALSE)>>

\* C10: leave-chat for any chat id, one the caller never joined and one that
\* names no chat included, takes the caller out of that room, makes the caller
\* and nobody else receive left-chat for it, emits no error, and changes no
\* other subscription, no registry entry and no persisted document.
C10_LeaveNeverRejected ==
  [][last'.act = "Leave"
       => /\ rooms' = [rooms EXCEPT ![last'.task.sock] = @ \ {last'.task.chat}]
          /\ last'.recv = Only(last'.task.sock, LeftChat(last'.task.chat))
          /\ UNCHANGED <<userOnline, chats, msgs, connectedUsers, sockUser>>]_vars

\* a client has just left a room that no client can ever be in
C10_Witness ==
  /\ last.act = "Leave"
  /\ last.task.chat = NoChat
  /\ last.recv[last.task.sock] = <<LeftChat(NoChat)>>
  /\ sockUser[last.task.sock] # None

\* C11: when a mark-read of a participant of the chat completes (its save has
\* resolved), the unread count of that participant, computed from the stored
\* documents, counts none of the messages that were stored when the mark-read
\* arrived.
C11_ReadExcludesEarlier ==
  [][last'.act = "MarkSave"
       => \A m \in 1..last'.task.delta :
            m \notin Unread(chats', msgs', last'.task.chat, sockUser[last'.task.sock])]_vars

\* a mark-read has just completed for a chat that held a message of another
\* sender stamped later than the stored lastRead, and a message that came
\* after the mark-read is counted as unread
C11_Witness ==
  /\ last.act = "MarkSave"
  /\ \E m \in 1..last.task.delta :
       /\ msgs[m].chat = last.task.chat
       /\ msgs[m].sender # sockUser[last.task.sock]
       /\ msgs[m].createdAt > 0
  /\ Unread(chats, msgs, last.task.chat, sockUser[last.task.sock]) # {}

\* C12: no step of a mark-read makes the caller receive anything, an error
\* event least of all: not when the caller has no user id, not when the chat
\* does not exist, not when a storage call rejects.
C12_MarkReadSilent ==
  [][last'.act \in {"StartMarkRead", "MarkFind", "MarkSave", "MarkFail"}
       => /\ last'.recv[last'.task.sock] = <<>>
          /\ \A o \in Sockets : \A k \in DOMAIN last'.recv[o] : last'.recv[o][k].type # "error"]_vars

\* a storage call of a mark-read has just rejected
C12_Witness ==
  /\ last.act = "MarkFail"
  /\ last.task.pc = "save"
  /\ last.recv = NoRecv

ErrorEv(text) == Ev("error", None, None, 0, text)

\* C13: when the chat lookup of a join-chat resolves, the caller's connection
\* is put into the chat's room only if the chat exists and the caller is a
\* participant of it at that time, and then the caller alone receives
\* joined-chat; for a chat that does not exist the caller receives error "Chat
\* not found", for a chat the caller is no participant of it receives error
\* "Access denied", and in both cases no subscription changes.
C13_JoinOnlyParticipants ==
  [][last'.act = "JoinFind"
       => LET s == last'.task.sock
              c == last'.task.chat
          IN IF c \notin Chats
             THEN rooms' = rooms /\ last'.recv = Only(s, ErrorEv("Chat not found"))
             ELSE IF ~IsParticipant(chats[c], sockUser[s])
             THEN rooms' = rooms /\ last'.recv = Only(s, ErrorEv("Access denied"))
             ELSE /\ rooms' = [rooms EXCEPT ![s] = @ \cup {c}]
                  /\ last'.recv = Only(s, Ev("joined-chat", None, c, 0, None))]_vars

\* a signed-in client has just been denied a chat it is no participant of,
\* and is not in its room
C13_Witness ==
  /\ last.act = "JoinFind"
  /\ last.task.chat \in Chats
  /\ last.recv[last.task.sock] = <<ErrorEv("Access denied")>>
  /\ last.task.chat \notin rooms[last.task.sock]
  /\ sockUser[last.task.sock] # None

\* C14: when the lookup of an authenticate finds no user for the identity id,
\* the caller (if still connected) receives error "User not found" and
\* nothing else, nobody else receives anything, the handler ends, and the
\* socket's user id, the registry, the online flags and the rooms are as
\* they were.
C14_UnknownIdentity ==
  [][(last'.act = "AuthFindOne" /\ Found(last'.task.clerk) = {})
       => /\ last'.recv = EmitTo(NoRecv, last'.task.sock, ErrorEv("User not found"))
          /\ UNCHANGED <<sockUser, connectedUsers, userOnline, rooms>>
          /\ \E i \in DOMAIN tasks : tasks[i] = last'.task /\ tasks' = Remove(tasks, i)]_vars

\* an unknown identity has just been refused on a socket that is registered
\* under the user it signed in as before
C14_Witness ==
  /\ last.act = "AuthFindOne"
  /\ Found(last.task.clerk) = {}
  /\ last.recv[last.task.sock] = <<ErrorEv("User not found")>>
  /\ [userId |-> sockUser[last.task.sock], socketId |-> last.task.sock] \in connectedUsers

\* C15: when the room-sync step of an authenticate fails (Chat.findUserChats
\* rejects), the flow goes on: the caller receives no error from that step and
\* the handler proceeds to notify the friends and to confirm.
C15_RoomSyncSoftFail ==
  [][(last'.act = "AuthFail" /\ last'.task.pc = "findChats")
       => /\ \A k \in DOMAIN last'.recv[last'.task.sock] :
               last'.recv[last'.task.sock][k].type # "error"
          /\ \/ \E i \in DOMAIN tasks' : tasks'[i] = [last'.task EXCEPT !.pc = "notify"]
             \/ \E k \in DOMAIN last'.recv[last'.task.sock] :
                  last'.recv[last'.task.sock][k].type = "authenticated"]_vars

\* C16: no event and no storage failure ends in an uncaught exception: the
\* process never exits.
C16_NoUncaughtException == last.act # "Exit"

\* C17: whatever a handler step does, an `error` event it emits is received
\* by the connection whose event the handler is processing and by no other.
C17_ErrorToCallerOnly ==
  [][\A o \in Sockets : \A k \in DOMAIN last'.recv[o] :
       last'.recv[o][k].type = "error" => o = last'.task.sock]_vars

\* a step delivered an error to its caller while the other client was
\* connected, signed in and subscribed to a room the caller is in
C17_Witness ==
  /\ \E k \in DOMAIN last.recv["s1"] : last.recv["s1"][k].type = "error"
  /\ last.task.sock = "s1"
  /\ sockState["s2"] = "open"
  /\ sockUser["s2"] = "u2"
  /\ rooms["s1"] \cap rooms["s2"] # {}

\* a participant list that names no user twice
NoDuplicate(ps) == \A j, k \in DOMAIN ps : ps[j].user = ps[k].user => j = k

\* C18: in every state every chat's participant list names each user at most
\* once, and every direct chat has exactly two participants.
C18_ParticipantLists ==
  \A c \in DOMAIN chats :
    /\ NoDuplicate(chats[c].participants)
    /\ chats[c].type = "direct" => Len(chats[c].participants) = 2

\* the tasks are kept in the order in which their events arrived: task i and
\* task j handle send-message events of one connection for one chat
SameStream(i, j) ==
  /\ tasks[i].op = "send-message" /\ tasks[j].op = "send-message"
  /\ tasks[i].sock = tasks[j].sock
  /\ tasks[i].chat = tasks[j].chat

\* C19: the send-message events of one connection for one chat take effect in
\* the order of their arrival: a message is never persisted while the message
\* of a later event of the connection is already persisted, and a new-message
\* is never broadcast while the persisted message of an earlier event of the
\* connection has not been broadcast yet.
C19_InArrivalOrder ==
  [][/\ last'.act = "SendCreate"
          => \A i \in DOMAIN tasks :
               (tasks[i] = last'.task /\ tasks'[i].pc = "save")
                 => \A j \in DOMAIN tasks :
                      (j > i /\ SameStream(i, j)) => tasks[j].pc \in {"findChat", "create"}
     /\ last'.act = "SendPopulate"
          => \A j \in DOMAIN tasks :
               (tasks[j] = last'.task /\ tasks' = Remove(tasks, j))
                 => \A i \in DOMAIN tasks :
                      (i < j /\ SameStream(i, j)) => tasks[i].pc \in {"findChat", "create"}]_vars

\* C20: whenever a step delivers a new-message event, the Message it names
\* was persisted before the step, for the chat the event names, and that
\* chat's stored lastMessage names a persisted message of the chat (the
\* handler's own, or the one a concurrent send saved after it); whenever a
\* step delivers a reaction-added event, the stored Message holds the reaction
\* of that user with that emoji.
C20_WriteBeforeBroadcast ==
  [][\A o \in Sockets : \A k \in DOMAIN last'.recv[o] :
       LET ev == last'.recv[o][k]
       IN /\ ev.type = "new-message"
               => /\ ev.msg \in DOMAIN msgs
                  /\ msgs[ev.msg].chat = ev.chat
                  /\ msgs[ev.msg].sender = ev.user
                  /\ chats[ev.chat].lastMessage \in DOMAIN msgs
                  /\ msgs[chats[ev.chat].lastMessage].chat = ev.chat
          /\ ev.type = "reaction-added"
               => /\ ev.msg \in DOMAIN msgs'
                  /\ \E r \in DOMAIN msgs'[ev.msg].reactions :
                       /\ msgs'[ev.msg].reactions[r].user = ev.user
                       /\ msgs'[ev.msg].reactions[r].emoji = ev.text]_vars

\* the other client received reaction-added for a message that was sent,
\* saved as its chat's lastMessage and broadcast in this run
C20_Witness ==
  /\ last.act = "ReactSave"
  /\ last.task.sock = "s1"
  /\ \E k \in DOMAIN last.recv["s2"] : last.recv["s2"][k].type = "reaction-added"
  /\ chats[last.task.chat].lastMessage = last.task.msg
  /\ \A i \in DOMAIN tasks : tasks[i].op # "send-message"

\* C21: the teardown of a connection that has a user removes the registry
\* entry of that user, and its status update, when it resolves, stores the
\* online flag false.  The teardown of a connection without a user changes
\* nothing.  A teardown that runs again raises nothing (the process goes on,
\* nobody receives an error) and, finding the registry and the flag as the
\* first run left them, changes neither.
C21_TeardownIdempotent ==
  [][LET s == last'.task.sock
     IN /\ (last'.act \in {"StartDisconnect", "DisconnectAgain"} /\ sockUser[s] # None)
             => MapGet(connectedUsers', sockUser[s]) = {}
        /\ last'.act = "DiscSetOffline" => ~userOnline'[last'.task.user]
        /\ (last'.act \in {"StartDisconnect", "DisconnectAgain"} /\ sockUser[s] = None)
             => /\ UNCHANGED <<sockUser, connectedUsers, userOnline, tasks>>
                /\ last'.recv = NoRecv
        /\ (last'.act = "DisconnectAgain" /\ MapGet(connectedUsers, sockUser[s]) = {})
             => UNCHANGED <<sockUser, connectedUsers, userOnline>>
        /\ (last'.act = "DiscSetOffline" /\ last'.task.kind = "again" /\ ~userOnline[last'.task.user])
             => UNCHANGED <<sockUser, connectedUsers, userOnline>>
        /\ last'.task.op = "disconnect"
             => /\ last'.act # "Exit"
                /\ \A o \in Sockets : \A k \in DOMAIN last'.recv[o] :
                     last'.recv[o][k].type # "error"]_vars

\* the status update of a second teardown resolved for a user whose first
\* teardown had left no entry and the flag false
C21_Witness ==
  /\ last.act = "DiscSetOffline"
  /\ last.task.kind = "again"
  /\ last.task.user = "u1"
  /\ ~userOnline["u1"]
  /\ MapGet(connectedUsers, "u1") = {}
  /\ \A i \in DOMAIN tasks : tasks[i].sock # last.task.sock \/ tasks[i].kind = "again"

\* C22: once a connection is closed and none of its handlers is in flight, no
\* registry entry names it.
C22_NoEntryOfClosed ==
  \A s \in Sockets :
    (sockState[s] = "closed" /\ Quiet(s))
      => \A e \in connectedUsers : e.socketId # s

\* C23: whenever no handler is in flight, the user of every connected,
\* authenticated socket has a registry entry.
C23_ConnectedUserHasEntry ==
  tasks = <<>>
    => \A s \in Sockets :
         (sockState[s] = "open" /\ sockUser[s] # None)
           => MapGet(connectedUsers, sockUser[s]) # {}

\* C24: whenever no handler is in flight, the stored online flag of a user is
\* true exactly when the registry has an entry of the user.
C24_FlagMatchesRegistry ==
  tasks = <<>>
    => \A u \in Users : userOnline[u] <=> MapGet(connectedUsers, u) # {}

\* C25: every registry entry keyed by user U names a socket whose current
\* user is U, and no entry names a socket that is closed and has no handler
\* in flight.
C25_EntryMatchesIdentity ==
  \A e \in connectedUsers :
    /\ sockUser[e.socketId] = e.userId
    /\ ~(sockState[e.socketId] = "closed" /\ Quiet(e.socketId))

\* C26: whenever a step delivers a new-message event for chat C to a
\* connection, the user of that connection is a participant of C at that
\* time.
C26_OnlyParticipantsReceive ==
  [][\A o \in Sockets : \A k \in DOMAIN last'.recv[o] :
       LET ev == last'.recv[o][k]
       IN ev.type = "new-message" => IsParticipant(chats'[ev.chat], sockUser[o])]_vars

\* C27: whenever a step delivers a user-typing, user-stopped-typing or
\* messages-read event that names user U and chat C, U is a participant of C.
C27_OnlyParticipantsSignal ==
  [][\A o \in Sockets : \A k \in DOMAIN last'.recv[o] :
       LET ev == last'.recv[o][k]
       IN ev.type \in {"user-typing", "user-stopped-typing", "messages-read"}
            => /\ ev.chat \in DOMAIN chats'
               /\ IsParticipant(chats'[ev.chat], ev.user)]_vars

\* the messages of chat c, named by their place in the order of persistence
MessagesOf(c) == {m \in DOMAIN msgs : msgs[m].chat = c}

\* C28: whenever no send-message handler is in flight, the lastMessage of
\* every chat that has messages names the message of the chat that was
\* persisted last.
C28_LastMessageIsLatest ==
  (\A i \in DOMAIN tasks : tasks[i].op # "send-message")
    => \A c \in DOMAIN chats :
         MessagesOf(c) # {}
           => /\ chats[c].lastMessage \in MessagesOf(c)
              /\ \A m \in MessagesOf(c) : m <= chats[c].lastMessage

\* C29: whenever a step of a send-message delivers an error to the caller, no
\* Message of that request is persisted and the step broadcasts no new-message
\* (a request that is answered with an error has no later step).
C29_ErrorMeansNothingStored ==
  [][(/\ last'.task.op = "send-message"
      /\ \E k \in DOMAIN last'.recv[last'.task.sock] :
           last'.recv[last'.task.sock][k].type = "error")
       => /\ last'.task.msg \notin DOMAIN msgs'
          /\ msgs' = msgs
          /\ \A o \in Sockets : \A k \in DOMAIN last'.recv[o] :
               last'.recv[o][k].type # "new-message"]_vars

\* C30: the save of a mark-read changes, in the stored chats, the lastRead of
\* the caller's participant entry and nothing else, and a mark-read of a user
\* without a participant entry changes no chat at any step.
C30_OnlyLastReadChanges ==
  [][last'.task.op = "mark-read"
       => IF last'.act = "MarkSave"
          THEN chats' = [chats EXCEPT
                  ![last'.task.chat].participants[last'.task.msg].lastRead =
                      chats'[last'.task.chat].participants[last'.task.msg].lastRead]
          ELSE chats' = chats]_vars

====
